---- MODULE Spec2Model ----
(***************************************************************************)
(* Model of src/src/charm.py, the AMS operator charm (AmsOperatorCharm).   *)
(*                                                                         *)
(* The charm is single threaded: the framework delivers one event at a     *)
(* time and runs its handler to completion, so every handler is one        *)
(* action.  What the handlers read from their collaborators (the charm     *)
(* configuration, the etcd endpoint consumer, the unit's addresses) is     *)
(* state that the environment changes between events.  What they do to     *)
(* their collaborators (the AMS snap wrapper, the unit, the relation data) *)
(* is recorded as the last arguments of every call, together with the      *)
(* names of the calls of the event being handled, in order.                *)
(*                                                                         *)
(* Four specifications:                                                    *)
(*   Spec       install, config-changed and etcd-available events;         *)
(*   SpecLxd    lxd-cluster relation-joined events;                        *)
(*   SpecRaw    the events of Spec with numeric settings of any type;      *)
(*   SpecIssue  SpecLxd and _generate_selfsigned_cert applied to arbitrary *)
(*              identities.                                                *)
(* The handlers of Spec and of SpecLxd touch disjoint parts of the state.  *)
(***************************************************************************)
EXTENDS Integers, Sequences, FiniteSets, TLC

VARIABLES
    config,         \* self.config
    etcd,           \* self.etcd: is_available and get_config()
    public_ip,      \* self.public_ip
    private_ip,     \* self.private_ip
    status,         \* self.unit.status
    prev_status,    \* self.unit.status when the last handled event began
    event,          \* the event just handled; "none" once the inputs changed
    calls,          \* names of the collaborator calls of that event, in order
    raised,         \* whether its handler ended with an exception
    snap,           \* self._snap: last arguments of each call
    ports,          \* ports opened with self.unit.set_ports
    relation_data,  \* event.relation.data[self.unit]
    entropy,        \* number of private keys and serials generated so far
    issued,         \* what each call of _generate_selfsigned_cert made
    arg             \* arguments of the last _generate_selfsigned_cert call

vars == <<config, etcd, public_ip, private_ip, status, prev_status, event,
          calls, raised, snap, ports, relation_data, entropy, issued, arg>>

----------------------------------------------------------------------------
(* Bounds *)

\* longest connection string the store delivers
MaxLen == 3
\* most calls of _generate_selfsigned_cert in one run
MaxIssues == 2

----------------------------------------------------------------------------
(* Values *)

\* An absent (None, unset) value is the empty sequence, a present value v
\* is <<v>>.
None == <<>>
Some(v) == <<v>>

\* Characters of a connection string: "," is the delimiter.
Chars == {"a", ","}

RECURSIVE StrsOfLen(_)
StrsOfLen(n) ==
    IF n = 0 THEN {<<>>}
    ELSE {<<c>> \o s : c \in Chars, s \in StrsOfLen(n - 1)}

\* Strings are sequences of characters.
StrsUpTo(n) == UNION {StrsOfLen(k) : k \in 0..n}


\* split that stops at the first delimiter and loses the rest
RECURSIVE split_first_piece(_)
split_first_piece(s) ==
    IF \A i \in 1..Len(s) : s[i] # ","
    THEN <<s>>
    ELSE LET i == CHOOSE j \in 1..Len(s) :
                      s[j] = "," /\ \A k \in 1..(j - 1) : s[k] # ","
         IN  <<SubSeq(s, 1, i - 1)>>

\* str.split(","): the pieces between the delimiters, in order; a string
\* without a delimiter, the empty one included, is one piece.
RECURSIVE split(_)
split(s) ==
    IF \A i \in 1..Len(s) : s[i] # ","
    THEN <<s>>
    ELSE LET i == CHOOSE j \in 1..Len(s) :
                      s[j] = "," /\ \A k \in 1..(j - 1) : s[k] # ","
         IN  <<SubSeq(s, 1, i - 1)>> \o split(SubSeq(s, i + 1, Len(s)))

\* dict.get(key, default) on the mapping returned by etcd.get_config()
get(d, default) == IF d = None THEN default ELSE d[1]

\* A configuration value read where a number is expected: an int, or a
\* string of characters.
IntSetting(n) == [kind |-> "int", int |-> n, str |-> <<>>]
StrSetting(s) == [kind |-> "str", int |-> 0, str |-> s]

DigitValue(c) ==
    CASE c = "0" -> 0 [] c = "1" -> 1 [] c = "2" -> 2 [] c = "3" -> 3
      [] c = "4" -> 4 [] c = "5" -> 5 [] c = "6" -> 6 [] c = "7" -> 7
      [] c = "8" -> 8 [] c = "9" -> 9

Digits == {"0", "1", "2", "3", "4", "5", "6", "7", "8", "9"}

RECURSIVE Decimal(_)
Decimal(s) ==
    IF s = <<>> THEN 0
    ELSE 10 * Decimal(SubSeq(s, 1, Len(s) - 1)) + DigitValue(s[Len(s)])

\* int(x): x itself for an int, the decimal value of a string of digits,
\* ValueError for any other string.
int(x) ==
    IF x.kind = "int" THEN [ok |-> TRUE, value |-> x.int]
    ELSE IF x.str # <<>> /\ \A i \in 1..Len(x.str) : x.str[i] \in Digits
    THEN [ok |-> TRUE, value |-> Decimal(x.str)]
    ELSE [ok |-> FALSE, value |-> 0]

----------------------------------------------------------------------------
(* Inputs *)

\* The charm declares port and prometheus_target_port as integers, and juju
\* delivers values of the declared type.
PortSettings == {IntSetting(8444), IntSetting(443)}
PrometheusPortSettings == {IntSetting(9104)}

\* The same settings when nothing enforces their type.
RawPortSettings == {IntSetting(8444), StrSetting(<<"8", "0">>), StrSetting(<<"x">>)}
RawPrometheusPortSettings == {IntSetting(9104), StrSetting(<<"x">>)}

MetricsServers == {"", "10.0.0.9:8086"}

ConfigsWith(port_settings, prometheus_port_settings, metrics_servers) ==
    [use_embedded_etcd : BOOLEAN,
     port : port_settings,
     prometheus_target_port : prometheus_port_settings,
     metrics_server : metrics_servers,
     port_range : {"10000-11000"},
     lxd_project : {"ams"},
     force_tls12 : {FALSE},
     use_network_acl : {FALSE},
     log_level : {"info"},
     location : {"ams.local"},
     prometheus_tls_cert_path : {""},
     prometheus_tls_key_path : {""},
     prometheus_basic_auth_username : {""},
     prometheus_basic_auth_password : {""},
     prometheus_extra_labels : {""},
     prometheus_metrics_path : {"/internal/1.0/metrics"}]

Configs == ConfigsWith(PortSettings, PrometheusPortSettings, MetricsServers)

RawConfigs ==
    ConfigsWith(RawPortSettings, RawPrometheusPortSettings, {""})

\* The etcd endpoint: without the relation it is not available and its
\* configuration is empty; with it the connection string may still be
\* missing from the configuration.
EtcdAbsent ==
    [is_available |-> FALSE, connection_string |-> None,
     ca |-> "", cert |-> "", key |-> ""]

EtcdStates ==
    {EtcdAbsent} \cup
    [is_available : {TRUE},
     connection_string : {None} \cup {Some(s) : s \in StrsUpTo(MaxLen)},
     ca : {"etcd-ca"}, cert : {"etcd-cert"}, key : {"etcd-key"}]

Addresses == {"", "1.2.3.4", "10.0.0.1"}

----------------------------------------------------------------------------
(* ETCDConfig of the ams module *)

ETCDConfig(use_embedded) == [use_embedded |-> use_embedded, servers |-> <<>>]

is_ready(etcd_cfg) == etcd_cfg.use_embedded \/ etcd_cfg.servers # <<>>

----------------------------------------------------------------------------
(* _on_config_changed *)

\* store_config that reads the connection string of a store that is not
\* available
store_config_unavailable_read(cfg, store) ==
    LET etcd_cfg == ETCDConfig(cfg.use_embedded_etcd)
        servers  == split(get(store.connection_string, <<>>))
    IN  IF ~is_ready(etcd_cfg)
        THEN IF servers = <<>> THEN None
             ELSE Some([etcd_cfg EXCEPT !.servers = servers])
        ELSE Some(etcd_cfg)

\* store_config that asks for the store even when etcd is embedded
store_config_always_external(cfg, store) ==
    LET etcd_cfg == ETCDConfig(cfg.use_embedded_etcd)
        servers  == split(get(store.connection_string, <<>>))
    IN  IF ~store.is_available THEN None
        ELSE IF servers = <<>> THEN None
        ELSE Some([etcd_cfg EXCEPT !.servers = servers])

\* store_config that never fills in the servers
store_config_servers_not_set(cfg, store) ==
    LET etcd_cfg == ETCDConfig(cfg.use_embedded_etcd)
        servers  == split(get(store.connection_string, <<>>))
    IN  IF ~is_ready(etcd_cfg)
        THEN IF ~store.is_available THEN None
             ELSE IF servers = <<>> THEN None
             ELSE Some(etcd_cfg)
        ELSE Some(etcd_cfg)

\* Lines 67-79: the ETCDConfig of the event, or no ETCDConfig when the
\* handler sets BlockedStatus("Waiting for etcd") and returns.
store_config(cfg, store) ==
    LET etcd_cfg == ETCDConfig(cfg.use_embedded_etcd)
        servers  == split(get(store.connection_string, <<>>))
    IN  IF ~is_ready(etcd_cfg)
        THEN IF ~store.is_available THEN None
             ELSE IF servers = <<>> THEN None
             ELSE Some([etcd_cfg EXCEPT !.servers = servers])
        ELSE Some(etcd_cfg)

\* backend_config that builds the endpoint from an empty setting too
backend_config_always_endpoint(cfg) ==
    [port_range      |-> cfg.port_range,
     lxd_project     |-> cfg.lxd_project,
     force_tls12     |-> cfg.force_tls12,
     use_network_acl |-> cfg.use_network_acl,
     metrics_server  |-> Some(<<"influxdb:", cfg.metrics_server>>)]

\* Lines 80-87: the BackendConfig; metrics_server stays unset unless the
\* setting is a non-empty string.
backend_config(cfg) ==
    [port_range      |-> cfg.port_range,
     lxd_project     |-> cfg.lxd_project,
     force_tls12     |-> cfg.force_tls12,
     use_network_acl |-> cfg.use_network_acl,
     metrics_server  |-> IF cfg.metrics_server # ""
                         THEN Some(<<"influxdb:", cfg.metrics_server>>)
                         ELSE None]

\* Lines 89-98, given the value of int(prometheus_target_port).
metrics_config(cfg, ip, port) ==
    [ip                  |-> ip,
     port                |-> port,
     tls_cert_path       |-> cfg.prometheus_tls_cert_path,
     tls_key_path        |-> cfg.prometheus_tls_key_path,
     basic_auth_username |-> cfg.prometheus_basic_auth_username,
     basic_auth_password |-> cfg.prometheus_basic_auth_password,
     extra_labels        |-> cfg.prometheus_extra_labels,
     metrics_path        |-> cfg.prometheus_metrics_path]

\* Lines 99-106, given the value of int(port).
service_config(cfg, ip, port, metrics_cfg, backend_cfg, etcd_cfg) ==
    [ip        |-> ip,
     port      |-> port,
     log_level |-> cfg.log_level,
     metrics   |-> metrics_cfg,
     backend   |-> backend_cfg,
     store     |-> etcd_cfg]

\* What a handler did: the status it left, whether it raised, its calls in
\* order and the arguments of configure, set_location and set_ports.
Outcome(st, exc, cs, service_cfg, loc, opened) ==
    [status |-> st, raised |-> exc, calls |-> cs,
     cfg |-> service_cfg, location |-> loc, ports |-> opened]

\* _on_config_changed that goes on with 0 for a number it cannot read
on_config_changed_unparsed_port(cfg, store, ip) ==
    LET etcd_cfg == store_config(cfg, store)
        prometheus_target_port == int(cfg.prometheus_target_port)
        port == int(cfg.port)
    IN  IF etcd_cfg = None
        THEN Outcome("Blocked", FALSE, <<>>, None, None, None)
        ELSE Outcome("Active", FALSE,
                     <<"configure", "set_location", "set_ports">>,
                     Some(service_config(
                         cfg, ip, port.value,
                         metrics_config(cfg, ip, prometheus_target_port.value),
                         backend_config(cfg), etcd_cfg[1])),
                     Some(<<cfg.location, cfg.port>>),
                     Some(port.value))

\* _on_config_changed that returns without a status when the store is not ready
on_config_changed_stays_waiting(cfg, store, ip) ==
    LET etcd_cfg == store_config(cfg, store)
        prometheus_target_port == int(cfg.prometheus_target_port)
        port == int(cfg.port)
    IN  IF etcd_cfg = None
        THEN Outcome("Waiting", FALSE, <<>>, None, None, None)
        ELSE IF ~prometheus_target_port.ok \/ ~port.ok
        THEN Outcome("Waiting", TRUE, <<>>, None, None, None)
        ELSE Outcome("Active", FALSE,
                     <<"configure", "set_location", "set_ports">>,
                     Some(service_config(
                         cfg, ip, port.value,
                         metrics_config(cfg, ip, prometheus_target_port.value),
                         backend_config(cfg), etcd_cfg[1])),
                     Some(<<cfg.location, cfg.port>>),
                     Some(port.value))

\* Lines 65-110.
on_config_changed(cfg, store, ip) ==
    LET etcd_cfg == store_config(cfg, store)
        prometheus_target_port == int(cfg.prometheus_target_port)
        port == int(cfg.port)
    IN  IF etcd_cfg = None
        THEN Outcome("Blocked", FALSE, <<>>, None, None, None)
        ELSE IF ~prometheus_target_port.ok \/ ~port.ok
        THEN Outcome("Waiting", TRUE, <<>>, None, None, None)
        ELSE Outcome("Active", FALSE,
                     <<"configure", "set_location", "set_ports">>,
                     Some(service_config(
                         cfg, ip, port.value,
                         metrics_config(cfg, ip, prometheus_target_port.value),
                         backend_config(cfg), etcd_cfg[1])),
                     Some(<<cfg.location, cfg.port>>),
                     Some(port.value))

\* _on_etcd_available without config_changed.emit()
on_etcd_available_no_emit(cfg, store, ip) ==
    Outcome(status, FALSE, <<"setup_etcd">>, None, None, None)

\* _on_etcd_available that emits config_changed before it calls setup_etcd
on_etcd_available_emit_first(cfg, store, ip) ==
    LET r == on_config_changed(cfg, store, ip)
    IN  [r EXCEPT !.calls = @ \o <<"setup_etcd">>]

\* Lines 60-63: setup_etcd, then config_changed.emit(), which runs
\* _on_config_changed before it returns.
on_etcd_available(cfg, store, ip) ==
    LET r == on_config_changed(cfg, store, ip)
    IN  [r EXCEPT !.calls = <<"setup_etcd">> \o @]

\* The effect of a handler that forgets what was applied when it does not
\* call configure
Applied_forgets(r, s) ==
    [s EXCEPT !.cfg = r.cfg, !.location = r.location]

\* The effect of the calls of _on_config_changed on the collaborators.
Applied(r, s) ==
    [s EXCEPT !.cfg      = IF r.cfg = None THEN @ ELSE r.cfg,
              !.location = IF r.location = None THEN @ ELSE r.location]

----------------------------------------------------------------------------
(* charms.tls_certificates_interface.v3.tls_certificates *)

\* A new RSA private key; id tells it from every other key.
generate_private_key(key_size, id) == [id |-> id, key_size |-> key_size]

\* A self-signed CA certificate of private_key.
generate_ca(private_key, subject, serial) ==
    [subject    |-> subject,
     issuer     |-> subject,
     public_key |-> private_key.id,
     signed_by  |-> private_key.id,
     is_ca      |-> TRUE,
     sans_dns   |-> <<>>,
     sans_ip    |-> <<>>,
     serial     |-> serial]

\* A certificate signing request of private_key.
generate_csr(private_key, subject, sans_dns, sans_ip) ==
    [subject    |-> subject,
     public_key |-> private_key.id,
     signed_by  |-> private_key.id,
     sans_dns   |-> sans_dns,
     sans_ip    |-> sans_ip]

\* The certificate for csr, issued by ca and signed with ca_key.
generate_certificate(csr, ca, ca_key, serial) ==
    [subject    |-> csr.subject,
     issuer     |-> ca.subject,
     public_key |-> csr.public_key,
     signed_by  |-> ca_key.id,
     is_ca      |-> FALSE,
     sans_dns   |-> csr.sans_dns,
     sans_ip    |-> csr.sans_ip,
     serial     |-> serial]

\* certificate verifies against ca: ca is a CA certificate, it is the
\* issuer, and its public key is the one of the key that signed.
Verifies(certificate, ca) ==
    /\ ca.is_ca
    /\ certificate.issuer = ca.subject
    /\ certificate.signed_by = ca.public_key

----------------------------------------------------------------------------
(* _generate_selfsigned_cert *)

KeySize == 4096

\* _generate_selfsigned_cert that does not require a private IP
generate_selfsigned_cert_unchecked_private_ip(hostname, ip_public, ip_private, n) ==
    IF hostname = "" \/ ip_public = ""
    THEN [ok |-> FALSE, returned |-> None, made |-> None, entropy |-> n]
    ELSE LET ca_key  == generate_private_key(KeySize, n + 1)
             ca_cert == generate_ca(ca_key, hostname, n + 2)
             key     == generate_private_key(KeySize, n + 3)
             csr     == generate_csr(key, hostname,
                                     <<ip_public, ip_private, hostname>>,
                                     <<ip_public, ip_private>>)
             cert    == generate_certificate(csr, ca_cert, ca_key, n + 4)
         IN  [ok       |-> TRUE,
              returned |-> Some([cert |-> cert, key |-> key]),
              made     |-> Some([ca_key |-> ca_key, ca_cert |-> ca_cert,
                                 key |-> key, csr |-> csr, cert |-> cert]),
              entropy  |-> n + 4]

\* _generate_selfsigned_cert that leaves the hostname out of the DNS names
generate_selfsigned_cert_without_hostname_san(hostname, ip_public, ip_private, n) ==
    IF hostname = "" \/ ip_public = "" \/ ip_private = ""
    THEN [ok |-> FALSE, returned |-> None, made |-> None, entropy |-> n]
    ELSE LET ca_key  == generate_private_key(KeySize, n + 1)
             ca_cert == generate_ca(ca_key, hostname, n + 2)
             key     == generate_private_key(KeySize, n + 3)
             csr     == generate_csr(key, hostname,
                                     <<ip_public, ip_private>>,
                                     <<ip_public, ip_private>>)
             cert    == generate_certificate(csr, ca_cert, ca_key, n + 4)
         IN  [ok       |-> TRUE,
              returned |-> Some([cert |-> cert, key |-> key]),
              made     |-> Some([ca_key |-> ca_key, ca_cert |-> ca_cert,
                                 key |-> key, csr |-> csr, cert |-> cert]),
              entropy  |-> n + 4]

\* _generate_selfsigned_cert that signs the certificate with its own key
generate_selfsigned_cert_signed_with_leaf_key(hostname, ip_public, ip_private, n) ==
    IF hostname = "" \/ ip_public = "" \/ ip_private = ""
    THEN [ok |-> FALSE, returned |-> None, made |-> None, entropy |-> n]
    ELSE LET ca_key  == generate_private_key(KeySize, n + 1)
             ca_cert == generate_ca(ca_key, hostname, n + 2)
             key     == generate_private_key(KeySize, n + 3)
             csr     == generate_csr(key, hostname,
                                     <<ip_public, ip_private, hostname>>,
                                     <<ip_public, ip_private>>)
             cert    == generate_certificate(csr, ca_cert, key, n + 4)
         IN  [ok       |-> TRUE,
              returned |-> Some([cert |-> cert, key |-> key]),
              made     |-> Some([ca_key |-> ca_key, ca_cert |-> ca_cert,
                                 key |-> key, csr |-> csr, cert |-> cert]),
              entropy  |-> n + 4]

\* _generate_selfsigned_cert that uses the CA key as the leaf key
generate_selfsigned_cert_one_key(hostname, ip_public, ip_private, n) ==
    IF hostname = "" \/ ip_public = "" \/ ip_private = ""
    THEN [ok |-> FALSE, returned |-> None, made |-> None, entropy |-> n]
    ELSE LET ca_key  == generate_private_key(KeySize, n + 1)
             ca_cert == generate_ca(ca_key, hostname, n + 2)
             key     == ca_key
             csr     == generate_csr(key, hostname,
                                     <<ip_public, ip_private, hostname>>,
                                     <<ip_public, ip_private>>)
             cert    == generate_certificate(csr, ca_cert, ca_key, n + 4)
         IN  [ok       |-> TRUE,
              returned |-> Some([cert |-> cert, key |-> key]),
              made     |-> Some([ca_key |-> ca_key, ca_cert |-> ca_cert,
                                 key |-> key, csr |-> csr, cert |-> cert]),
              entropy  |-> n + 4]

\* _generate_selfsigned_cert that generates its keys once and keeps them
generate_selfsigned_cert_cached(hostname, ip_public, ip_private, n) ==
    IF hostname = "" \/ ip_public = "" \/ ip_private = ""
    THEN [ok |-> FALSE, returned |-> None, made |-> None, entropy |-> n]
    ELSE LET ca_key  == generate_private_key(KeySize, 1)
             ca_cert == generate_ca(ca_key, hostname, 2)
             key     == generate_private_key(KeySize, 3)
             csr     == generate_csr(key, hostname,
                                     <<ip_public, ip_private, hostname>>,
                                     <<ip_public, ip_private>>)
             cert    == generate_certificate(csr, ca_cert, ca_key, 4)
         IN  [ok       |-> TRUE,
              returned |-> Some([cert |-> cert, key |-> key]),
              made     |-> Some([ca_key |-> ca_key, ca_cert |-> ca_cert,
                                 key |-> key, csr |-> csr, cert |-> cert]),
              entropy  |-> n + 4]

\* _generate_selfsigned_cert that returns the key of the CA with the
\* certificate
generate_selfsigned_cert_returns_ca_key(hostname, ip_public, ip_private, n) ==
    IF hostname = "" \/ ip_public = "" \/ ip_private = ""
    THEN [ok |-> FALSE, returned |-> None, made |-> None, entropy |-> n]
    ELSE LET ca_key  == generate_private_key(KeySize, n + 1)
             ca_cert == generate_ca(ca_key, hostname, n + 2)
             key     == generate_private_key(KeySize, n + 3)
             csr     == generate_csr(key, hostname,
                                     <<ip_public, ip_private, hostname>>,
                                     <<ip_public, ip_private>>)
             cert    == generate_certificate(csr, ca_cert, ca_key, n + 4)
         IN  [ok       |-> TRUE,
              returned |-> Some([cert |-> cert, key |-> ca_key]),
              made     |-> Some([ca_key |-> ca_key, ca_cert |-> ca_cert,
                                 key |-> key, csr |-> csr, cert |-> cert]),
              entropy  |-> n + 4]

\* Lines 118-139.  n is the number of keys and serials generated before
\* the call.  The result says whether the call returned, what it returned
\* (the tuple cert, key), every key and certificate it made, each use it
\* made of a private key, and the number of keys and serials after it.
generate_selfsigned_cert(hostname, ip_public, ip_private, n) ==
    IF hostname = "" \/ ip_public = "" \/ ip_private = ""
    THEN [ok |-> FALSE, returned |-> None, made |-> None, entropy |-> n]
    ELSE LET ca_key  == generate_private_key(KeySize, n + 1)
             ca_cert == generate_ca(ca_key, hostname, n + 2)
             key     == generate_private_key(KeySize, n + 3)
             csr     == generate_csr(key, hostname,
                                     <<ip_public, ip_private, hostname>>,
                                     <<ip_public, ip_private>>)
             cert    == generate_certificate(csr, ca_cert, ca_key, n + 4)
         IN  [ok       |-> TRUE,
              returned |-> Some([cert |-> cert, key |-> key]),
              made     |-> Some([ca_key |-> ca_key, ca_cert |-> ca_cert,
                                 key |-> key, csr |-> csr, cert |-> cert]),
              entropy  |-> n + 4]

\* bytes.decode("utf-8") and json.dumps
decode(bytes) == [str |-> bytes]
dumps(list) == [json_array |-> list]

----------------------------------------------------------------------------
(* Events *)

InitWith(configs) ==
    /\ config \in configs
    /\ etcd = EtcdAbsent
    /\ public_ip = "1.2.3.4"
    /\ private_ip = "10.0.0.1"
    /\ status = "Maintenance"
    /\ prev_status = "Maintenance"
    /\ event = "none"
    /\ calls = <<>>
    /\ raised = FALSE
    /\ snap = [installed |-> FALSE, etcd |-> None, cfg |-> None,
               location |-> None, lxd |-> None]
    /\ ports = None
    /\ relation_data = None
    /\ entropy = 0
    /\ issued = <<>>
    /\ arg = None

Init == InitWith(Configs)

\* Between events nothing of the last event is current any more.
Idle ==
    /\ event' = "none"
    /\ calls' = <<>>
    /\ raised' = FALSE
    /\ prev_status' = status

\* juju config changes the charm configuration.
SetConfigIn(configs) ==
    /\ \E c \in configs : c # config /\ config' = c
    /\ Idle
    /\ UNCHANGED <<etcd, public_ip, private_ip, status, snap, ports,
                   relation_data, entropy, issued, arg>>

SetConfig == SetConfigIn(Configs)

\* The etcd relation appears, changes its data or goes away.
SetEtcd ==
    /\ \E e \in EtcdStates : e # etcd /\ etcd' = e
    /\ Idle
    /\ UNCHANGED <<config, public_ip, private_ip, status, snap, ports,
                   relation_data, entropy, issued, arg>>

\* Lines 54-58; _is_ua_attached() is True.
Install ==
    /\ ~snap.installed
    /\ event' = "install"
    /\ prev_status' = status
    /\ calls' = <<"install", "set_workload_version">>
    /\ raised' = FALSE
    /\ snap' = [snap EXCEPT !.installed = TRUE]
    /\ UNCHANGED <<config, etcd, public_ip, private_ip, status, ports,
                   relation_data, entropy, issued, arg>>

\* Lines 65-110, as the handler of a config-changed event.
ConfigChanged ==
    /\ snap.installed
    /\ LET r == on_config_changed(config, etcd, private_ip)
       IN  /\ event' = "config_changed"
           /\ prev_status' = status
           /\ status' = r.status
           /\ calls' = r.calls
           /\ raised' = r.raised
           /\ snap' = Applied(r, snap)
           /\ ports' = IF r.ports = None THEN ports ELSE r.ports
    /\ UNCHANGED <<config, etcd, public_ip, private_ip, relation_data,
                   entropy, issued, arg>>

\* Lines 60-63, as the handler of the available event of the etcd endpoint,
\* which the endpoint emits only while it is available.
EtcdAvailable ==
    /\ snap.installed
    /\ etcd.is_available
    /\ LET r == on_etcd_available(config, etcd, private_ip)
       IN  /\ event' = "etcd_available"
           /\ prev_status' = status
           /\ status' = r.status
           /\ calls' = r.calls
           /\ raised' = r.raised
           /\ snap' = Applied(r, [snap EXCEPT !.etcd =
                          Some([ca |-> etcd.ca, cert |-> etcd.cert,
                                key |-> etcd.key])])
           /\ ports' = IF r.ports = None THEN ports ELSE r.ports
    /\ UNCHANGED <<config, etcd, public_ip, private_ip, relation_data,
                   entropy, issued, arg>>

Next ==
    \/ SetConfig
    \/ SetEtcd
    \/ Install
    \/ ConfigChanged
    \/ EtcdAvailable

Spec == Init /\ [][Next]_vars

----------------------------------------------------------------------------
(* The same events when the numeric settings may be of any type *)

InitRaw == InitWith(RawConfigs)

SetRawConfig == SetConfigIn(RawConfigs)

NextRaw ==
    \/ SetRawConfig
    \/ SetEtcd
    \/ Install
    \/ ConfigChanged
    \/ EtcdAvailable

SpecRaw == InitRaw /\ [][NextRaw]_vars

----------------------------------------------------------------------------
(* lxd-cluster relation-joined events *)

Identity(hostname, ip_public, ip_private) ==
    [hostname |-> hostname, public_ip |-> ip_public, private_ip |-> ip_private]

\* One entry of issued: the identity and what the call made and returned.
Issue(identity, r) ==
    [identity |-> identity, made |-> r.made[1], returned |-> r.returned[1]]

InitLxd ==
    /\ config \in Configs
    /\ config.use_embedded_etcd
    /\ config.port = IntSetting(8444)
    /\ config.metrics_server = ""
    /\ etcd = EtcdAbsent
    /\ public_ip \in Addresses
    /\ private_ip \in Addresses
    /\ status = "Maintenance"
    /\ prev_status = "Maintenance"
    /\ event = "none"
    /\ calls = <<>>
    /\ raised = FALSE
    /\ snap = [installed |-> TRUE, etcd |-> None, cfg |-> None,
               location |-> None, lxd |-> None]
    /\ ports = None
    /\ relation_data = None
    /\ entropy = 0
    /\ issued = <<>>
    /\ arg = None

\* The addresses of the juju-info binding change.
SetAddresses ==
    /\ \E a, b \in Addresses :
          /\ <<a, b>> # <<public_ip, private_ip>>
          /\ public_ip' = a
          /\ private_ip' = b
    /\ Idle
    /\ UNCHANGED <<config, etcd, status, snap, ports, relation_data,
                   entropy, issued, arg>>

\* _on_lxd_integrator_joined that publishes the key next to the certificate
LxdIntegratorJoined_publishes_key ==
    /\ snap.installed
    /\ Len(issued) < MaxIssues
    /\ LET r == generate_selfsigned_cert(public_ip, public_ip, private_ip,
                                         entropy)
       IN  /\ event' = "lxd_integrator_joined"
           /\ prev_status' = status
           /\ arg' = Some(Identity(public_ip, public_ip, private_ip))
           /\ entropy' = r.entropy
           /\ raised' = ~r.ok
           /\ IF r.ok
              THEN /\ calls' = <<"setup_lxd">>
                   /\ snap' = [snap EXCEPT !.lxd =
                                  Some([cert |-> r.returned[1].cert,
                                        key  |-> r.returned[1].key])]
                   /\ relation_data' =
                          Some([client_certificates |->
                                    dumps(<<decode(r.returned[1].cert),
                                            decode(r.returned[1].key)>>)])
                   /\ issued' = Append(issued,
                          Issue(Identity(public_ip, public_ip, private_ip), r))
              ELSE /\ calls' = <<>>
                   /\ UNCHANGED <<snap, relation_data, issued>>
    /\ UNCHANGED <<config, etcd, public_ip, private_ip, status, ports>>

\* _on_lxd_integrator_joined that issues for the host name of the unit
LxdIntegratorJoined_with_host_name ==
    /\ snap.installed
    /\ Len(issued) < MaxIssues
    /\ LET r == generate_selfsigned_cert("ams-0", public_ip, private_ip,
                                         entropy)
       IN  /\ event' = "lxd_integrator_joined"
           /\ prev_status' = status
           /\ arg' = Some(Identity("ams-0", public_ip, private_ip))
           /\ entropy' = r.entropy
           /\ raised' = ~r.ok
           /\ IF r.ok
              THEN /\ calls' = <<"setup_lxd">>
                   /\ snap' = [snap EXCEPT !.lxd =
                                  Some([cert |-> r.returned[1].cert,
                                        key  |-> r.returned[1].key])]
                   /\ relation_data' =
                          Some([client_certificates |->
                                    dumps(<<decode(r.returned[1].cert)>>)])
                   /\ issued' = Append(issued,
                          Issue(Identity("ams-0", public_ip, private_ip), r))
              ELSE /\ calls' = <<>>
                   /\ UNCHANGED <<snap, relation_data, issued>>
    /\ UNCHANGED <<config, etcd, public_ip, private_ip, status, ports>>

\* Lines 112-116.
LxdIntegratorJoined ==
    /\ snap.installed
    /\ Len(issued) < MaxIssues
    /\ LET r == generate_selfsigned_cert(public_ip, public_ip, private_ip,
                                         entropy)
       IN  /\ event' = "lxd_integrator_joined"
           /\ prev_status' = status
           /\ arg' = Some(Identity(public_ip, public_ip, private_ip))
           /\ entropy' = r.entropy
           /\ raised' = ~r.ok
           /\ IF r.ok
              THEN /\ calls' = <<"setup_lxd">>
                   /\ snap' = [snap EXCEPT !.lxd =
                                  Some([cert |-> r.returned[1].cert,
                                        key  |-> r.returned[1].key])]
                   /\ relation_data' =
                          Some([client_certificates |->
                                    dumps(<<decode(r.returned[1].cert)>>)])
                   /\ issued' = Append(issued,
                          Issue(Identity(public_ip, public_ip, private_ip), r))
              ELSE /\ calls' = <<>>
                   /\ UNCHANGED <<snap, relation_data, issued>>
    /\ UNCHANGED <<config, etcd, public_ip, private_ip, status, ports>>

NextLxd ==
    \/ SetAddresses
    \/ LxdIntegratorJoined

SpecLxd == InitLxd /\ [][NextLxd]_vars

----------------------------------------------------------------------------
(* _generate_selfsigned_cert called with any identity, as well as by *)
(* relation-joined events                                           *)

Hostnames == {"", "ams-0", "1.2.3.4"}

InitIssue == InitLxd

\* One call of _generate_selfsigned_cert.
IssueCall ==
    /\ Len(issued) < MaxIssues
    /\ \E hostname \in Hostnames, ip_public, ip_private \in Addresses :
          LET r == generate_selfsigned_cert(hostname, ip_public, ip_private,
                                            entropy)
          IN  /\ event' = "issue"
              /\ prev_status' = status
              /\ calls' = <<>>
              /\ arg' = Some(Identity(hostname, ip_public, ip_private))
              /\ entropy' = r.entropy
              /\ raised' = ~r.ok
              /\ issued' = IF r.ok
                           THEN Append(issued,
                                    Issue(Identity(hostname, ip_public,
                                                   ip_private), r))
                           ELSE issued
    /\ UNCHANGED <<config, etcd, public_ip, private_ip, status, snap, ports,
                   relation_data>>

NextIssue ==
    \/ IssueCall
    \/ SetAddresses
    \/ LxdIntegratorJoined

SpecIssue == InitIssue /\ [][NextIssue]_vars

----------------------------------------------------------------------------
(* Vocabulary of the properties *)

Range(s) == {s[i] : i \in 1..Len(s)}

\* ",".join(list)
RECURSIVE Join(_)
Join(list) ==
    IF list = <<>> THEN <<>>
    ELSE IF Len(list) = 1 THEN list[1]
    ELSE list[1] \o <<",">> \o Join(Tail(list))

\* list is the list of the entries that s separates with ","
EntriesOf(list, s) ==
    /\ list # <<>>
    /\ \A i \in 1..Len(list) : "," \notin Range(list[i])
    /\ Join(list) = s

\* s is one or more non-empty entries joined by ","
NonEmptyEntries(s) ==
    /\ s # <<>>
    /\ s[1] # ","
    /\ s[Len(s)] # ","
    /\ \A i \in 1..(Len(s) - 1) : ~(s[i] = "," /\ s[i + 1] = ",")

\* The connection string the store reports, "" when it reports none.
ConnectionString == IF etcd.connection_string = None THEN <<>>
                    ELSE etcd.connection_string[1]

\* The event just handled ran _on_config_changed with the inputs of the
\* current state.
Reconciled == event \in {"config_changed", "etcd_available"}

Configured == "configure" \in Range(calls)

\* The StoreConfig of the ServiceConfig last handed to configure().
AppliedStore == snap.cfg[1].store

----------------------------------------------------------------------------
(* Reconciliation *)

\* C1: a config-changed event with use_embedded_etcd false, the store
\* available and an empty or missing connection string ends Blocked and does
\* not call configure().
C1_EmptyConnectionStringBlocks ==
    (/\ event = "config_changed"
     /\ ~config.use_embedded_etcd
     /\ etcd.is_available
     /\ ConnectionString = <<>>)
    => (status = "Blocked" /\ ~Configured)

\* C2: a config-changed event with use_embedded_etcd false while the store
\* is not available ends Blocked, and calls none of configure(),
\* set_location() and set_ports().
C2_UnavailableStoreBlocks ==
    (/\ event = "config_changed"
     /\ ~config.use_embedded_etcd
     /\ ~etcd.is_available)
    => /\ status = "Blocked"
       /\ ~raised
       /\ Range(calls) \cap {"configure", "set_location", "set_ports"} = {}

C2_Witness ==
    /\ event = "config_changed"
    /\ ~config.use_embedded_etcd
    /\ ~etcd.is_available
    /\ prev_status = "Active"
    /\ status = "Blocked"

\* C3: from Blocked with use_embedded_etcd false, a reconciliation that
\* finds the store available with a non-empty connection string calls
\* configure() with the entries of that string as the store servers, and
\* ends Active.
C3_RecoversOnceStoreAvailable ==
    (/\ Reconciled
     /\ prev_status = "Blocked"
     /\ ~config.use_embedded_etcd
     /\ etcd.is_available
     /\ ConnectionString # <<>>)
    => /\ status = "Active"
       /\ Configured
       /\ ~AppliedStore.use_embedded
       /\ EntriesOf(AppliedStore.servers, ConnectionString)

C3_Witness ==
    /\ event = "etcd_available"
    /\ prev_status = "Blocked"
    /\ ~config.use_embedded_etcd
    /\ ConnectionString = <<"a">>
    /\ status = "Active"
    /\ calls = <<"setup_etcd", "configure", "set_location", "set_ports">>
    /\ AppliedStore.servers = << <<"a">> >>

C5_EmbeddedIsAlwaysReady ==
    (event = "config_changed" /\ config.use_embedded_etcd)
    => /\ status = "Active"
       /\ Configured
       /\ AppliedStore.use_embedded
       /\ AppliedStore.servers = <<>>
       /\ is_ready(AppliedStore)

C5_Witness ==
    /\ event = "config_changed"
    /\ config.use_embedded_etcd
    /\ etcd.is_available
    /\ ConnectionString = <<"a">>
    /\ Configured
    /\ AppliedStore.servers = <<>>

----------------------------------------------------------------------------
(* Certificate issuance *)

\* The identity of the last call of _generate_selfsigned_cert has an empty
\* part.
EmptyIdentity(identity) ==
    \/ identity.hostname = ""
    \/ identity.public_ip = ""
    \/ identity.private_ip = ""

Issuing == {"issue", "lxd_integrator_joined"}

\* C6: a call of _generate_selfsigned_cert with an empty hostname, public
\* IP or private IP raises before it generates any key or certificate, and
\* the relation-joined event it fails in calls no setup_lxd and writes no
\* relation data.
C6_EmptyIdentityFails ==
    [][(event' \in Issuing /\ arg' # None /\ EmptyIdentity(arg'[1]))
       => /\ raised'
          /\ entropy' = entropy
          /\ issued' = issued
          /\ "setup_lxd" \notin Range(calls')
          /\ snap' = snap
          /\ relation_data' = relation_data]_vars

C6_Witness ==
    /\ event = "lxd_integrator_joined"
    /\ arg # None
    /\ arg[1].private_ip = ""
    /\ arg[1].hostname # ""
    /\ raised
    /\ Len(issued) = 1
    /\ entropy = 4
    /\ calls = <<>>

\* C7: the certificate every successful call returns has the DNS names
\* {public_ip, private_ip, hostname}, the IP addresses {public_ip,
\* private_ip} and the subject hostname.
C7_SansAreTheIdentity ==
    \A i \in 1..Len(issued) :
        LET id   == issued[i].identity
            cert == issued[i].returned.cert
        IN  /\ Range(cert.sans_dns) = {id.public_ip, id.private_ip, id.hostname}
            /\ Range(cert.sans_ip) = {id.public_ip, id.private_ip}
            /\ cert.subject = id.hostname

C7_Witness ==
    /\ event = "issue"
    /\ ~raised
    /\ \E i \in 1..Len(issued) :
          /\ issued[i].identity = Identity("ams-0", "1.2.3.4", "10.0.0.1")
          /\ Range(issued[i].returned.cert.sans_dns) =
                 {"1.2.3.4", "10.0.0.1", "ams-0"}

\* C8 as stated: what every successful call returns contains the CA
\* certificate, and the certificate returned with it verifies against it.
C8_BundleContainsCa ==
    \A i \in 1..Len(issued) :
        /\ "ca_cert" \in DOMAIN issued[i].returned
        /\ Verifies(issued[i].returned.cert, issued[i].made.ca_cert)

\* C8, amended: every successful call returns the leaf certificate and the
\* leaf key and nothing else; the certificate verifies against the CA
\* certificate the same call made, and that CA certificate is not returned.
C8_LeafVerifiesAgainstCallsCa ==
    \A i \in 1..Len(issued) :
        /\ DOMAIN issued[i].returned = {"cert", "key"}
        /\ issued[i].returned.cert = issued[i].made.cert
        /\ issued[i].returned.cert # issued[i].made.ca_cert
        /\ Verifies(issued[i].returned.cert, issued[i].made.ca_cert)
        /\ issued[i].made.ca_cert.public_key = issued[i].made.ca_key.id

C8_Witness ==
    /\ event = "lxd_integrator_joined"
    /\ ~raised
    /\ Len(issued) = 1
    /\ issued[1].returned.cert.signed_by = issued[1].made.ca_key.id
    /\ issued[1].returned.cert.issuer = "1.2.3.4"

\* C9: in every call the key returned is the leaf key, the key of the
\* signing request and of the certificate; it is not the CA key of the
\* call, which is the key of the CA certificate and signs the leaf
\* certificate, and is the key of nothing else.
C9_LeafKeyIsNotCaKey ==
    \A i \in 1..Len(issued) :
        LET made == issued[i].made
        IN  /\ issued[i].returned.key = made.key
            /\ made.key.id # made.ca_key.id
            /\ made.csr.public_key = made.key.id
            /\ made.csr.signed_by = made.key.id
            /\ made.cert.public_key = made.key.id
            /\ made.cert.public_key # made.ca_key.id
            /\ made.ca_cert.public_key = made.ca_key.id
            /\ made.cert.signed_by = made.ca_key.id

C9_Witness ==
    /\ event = "issue"
    /\ Len(issued) = 2
    /\ issued[2].returned.key.id = 7
    /\ issued[2].made.ca_key.id = 5

\* C10: two relation-joined events with the same identity make
\* certificates with the same names, and no two relation-joined events
\* share a CA key, a leaf key, a CA certificate or a leaf certificate.
C10_NeverCached ==
    \A i, j \in 1..Len(issued) :
        i < j =>
            LET a == issued[i]
                b == issued[j]
            IN  /\ (a.identity = b.identity =>
                       /\ Range(a.made.cert.sans_dns) = Range(b.made.cert.sans_dns)
                       /\ Range(a.made.cert.sans_ip) = Range(b.made.cert.sans_ip))
                /\ {a.made.ca_key.id, a.made.key.id}
                       \cap {b.made.ca_key.id, b.made.key.id} = {}
                /\ a.made.cert # b.made.cert
                /\ a.made.ca_cert # b.made.ca_cert
                /\ a.made.cert.public_key # b.made.cert.public_key
                /\ a.returned # b.returned

C10_Witness ==
    /\ event = "lxd_integrator_joined"
    /\ Len(issued) = 2
    /\ issued[1].identity = issued[2].identity
    /\ issued[1].returned.key # issued[2].returned.key

----------------------------------------------------------------------------
(* Relation-joined events *)

\* The relation-joined event just handled issued a certificate.
Joined == event = "lxd_integrator_joined" /\ ~raised

\* What the last successful call of _generate_selfsigned_cert made.
LastIssued == issued[Len(issued)]

\* The elements of the JSON array published as client_certificates.
Published == relation_data[1].client_certificates.json_array

\* A value is a private key, not a certificate.
IsPrivateKey(v) == "key_size" \in DOMAIN v

\* C11: after a successful relation-joined event client_certificates is a
\* JSON array of one element, the text of the leaf certificate issued in
\* that event, which is the certificate given to setup_lxd; the relation
\* data never holds a private key.
C11_PublishesTheLeafCertificate ==
    /\ Joined =>
          /\ relation_data # None
          /\ Len(Published) = 1
          /\ DOMAIN Published[1] = {"str"}
          /\ Published[1].str = LastIssued.made.cert
          /\ snap.lxd # None
          /\ snap.lxd[1].cert = LastIssued.made.cert
    /\ relation_data # None =>
          /\ DOMAIN relation_data[1] = {"client_certificates"}
          /\ \A k \in 1..Len(Published) : ~IsPrivateKey(Published[k].str)

C11_Witness ==
    /\ Joined
    /\ Len(issued) = 2
    /\ Published = <<[str |-> issued[2].made.cert]>>
    /\ issued[2].made.cert # issued[1].made.cert

----------------------------------------------------------------------------
(* Reconciliation, continued *)

\* A setting that is no int and no string of digits.
NotAnInteger(x) ==
    /\ x.kind = "str"
    /\ \/ x.str = <<>>
       \/ \E i \in 1..Len(x.str) : x.str[i] \notin Digits

MalformedPort ==
    \/ NotAnInteger(config.port)
    \/ NotAnInteger(config.prometheus_target_port)

\* C12: a config-changed event with a port or prometheus_target_port that
\* is not an integer calls none of configure(), set_location() and
\* set_ports() and does not end Active: the handler raises with the status
\* still Waiting, unless the store check had already ended it Blocked.
C12_MalformedPortHalts ==
    (event = "config_changed" /\ MalformedPort)
    => /\ Range(calls) \cap {"configure", "set_location", "set_ports"} = {}
       /\ status # "Active"
       /\ \/ raised /\ status = "Waiting"
          \/ /\ ~raised
             /\ status = "Blocked"
             /\ ~config.use_embedded_etcd
             /\ ~etcd.is_available

C12_Witness ==
    /\ event = "config_changed"
    /\ config.port = StrSetting(<<"x">>)
    /\ config.prometheus_target_port = IntSetting(9104)
    /\ raised
    /\ status = "Waiting"
    /\ prev_status = "Active"
    /\ calls = <<>>
    /\ snap.cfg # None

\* C13: the StoreConfig of every ServiceConfig handed to configure() is
\* ready (use_embedded, or a list of servers that is not empty), and the
\* status becomes or stays Active through an event only when that event
\* called configure() with such a ServiceConfig.
C13_ConfiguredMeansReady ==
    [][/\ snap'.cfg # None =>
             \/ snap'.cfg[1].store.use_embedded
             \/ Len(snap'.cfg[1].store.servers) > 0
       /\ (status' = "Active" /\ (status # "Active" \/ Reconciled'))
             => /\ Reconciled'
                /\ "configure" \in Range(calls')
                /\ snap'.cfg # None
                /\ \/ snap'.cfg[1].store.use_embedded
                   \/ Len(snap'.cfg[1].store.servers) > 0]_vars

C13_Witness ==
    /\ event = "config_changed"
    /\ status = "Active"
    /\ prev_status = "Blocked"
    /\ Configured
    /\ ~AppliedStore.use_embedded
    /\ Len(AppliedStore.servers) = 2

\* The ServiceConfig that the inputs of the state after a step determine:
\* every field is named by the setting or the address it comes from.
ConfigOfCurrentInputs(service_cfg) ==
    /\ service_cfg.ip = private_ip'
    /\ service_cfg.port = config'.port.int
    /\ service_cfg.log_level = config'.log_level
    /\ service_cfg.metrics =
           [ip                  |-> private_ip',
            port                |-> config'.prometheus_target_port.int,
            tls_cert_path       |-> config'.prometheus_tls_cert_path,
            tls_key_path        |-> config'.prometheus_tls_key_path,
            basic_auth_username |-> config'.prometheus_basic_auth_username,
            basic_auth_password |-> config'.prometheus_basic_auth_password,
            extra_labels        |-> config'.prometheus_extra_labels,
            metrics_path        |-> config'.prometheus_metrics_path]
    /\ service_cfg.backend.port_range = config'.port_range
    /\ service_cfg.backend.lxd_project = config'.lxd_project
    /\ service_cfg.backend.force_tls12 = config'.force_tls12
    /\ service_cfg.backend.use_network_acl = config'.use_network_acl
    /\ (config'.metrics_server = "" <=> service_cfg.backend.metrics_server = None)
    /\ service_cfg.store.use_embedded = config'.use_embedded_etcd
    /\ IF config'.use_embedded_etcd
       THEN service_cfg.store.servers = <<>>
       ELSE EntriesOf(service_cfg.store.servers,
                      IF etcd'.connection_string = None THEN <<>>
                      ELSE etcd'.connection_string[1])
    /\ DOMAIN service_cfg =
           {"ip", "port", "log_level", "metrics", "backend", "store"}

\* C14: a reconciliation that ends Blocked leaves the ServiceConfig last
\* applied, the location and the opened ports as they were; one that calls
\* configure() replaces the ServiceConfig with the one the current settings,
\* store and address determine, whatever the previous one was.
C14_NotReadyKeepsAppliedConfig ==
    [][/\ (Reconciled' /\ status' = "Blocked")
             => /\ snap'.cfg = snap.cfg
                /\ snap'.location = snap.location
                /\ snap'.lxd = snap.lxd
                /\ ports' = ports
       /\ (Reconciled' /\ "configure" \in Range(calls'))
             => /\ snap'.cfg # None
                /\ ConfigOfCurrentInputs(snap'.cfg[1])
                /\ snap'.location = Some(<<config'.location, config'.port>>)
                /\ ports' = Some(config'.port.int)]_vars

C14_Witness ==
    /\ event = "config_changed"
    /\ status = "Blocked"
    /\ prev_status = "Active"
    /\ ~config.use_embedded_etcd
    /\ snap.cfg # None
    /\ AppliedStore.use_embedded
    /\ snap.cfg[1].port = 443
    /\ config.port = IntSetting(8444)
    /\ ports = Some(443)

\* The places of a call in the calls of the event.
Places(name) == {i \in 1..Len(calls) : calls[i] = name}

\* C15: the handler of an etcd-available event calls setup_etcd once, first,
\* with the ca, cert and key of the store, and the reconciliation it emits
\* runs to its end within the event: every configure() of the event comes
\* after setup_etcd, and the event ends Blocked or Active.
C15_SetupEtcdBeforeReconcile ==
    event = "etcd_available"
    => /\ Places("setup_etcd") = {1}
       /\ snap.etcd = Some([ca |-> etcd.ca, cert |-> etcd.cert,
                            key |-> etcd.key])
       /\ \A i \in Places("configure") : i > 1
       /\ ~raised
       /\ status \in {"Blocked", "Active"}
       /\ status = "Active" <=> Places("configure") # {}
       /\ status = "Active" =>
              /\ snap.cfg # None
              /\ snap.cfg[1].store.use_embedded = config.use_embedded_etcd
              /\ snap.cfg[1].port = config.port.int

C15_Witness ==
    /\ event = "etcd_available"
    /\ prev_status = "Blocked"
    /\ calls = <<"setup_etcd", "configure", "set_location", "set_ports">>
    /\ snap.etcd = Some([ca |-> "etcd-ca", cert |-> "etcd-cert",
                         key |-> "etcd-key"])
    /\ status = "Active"

\* C16: the backend of every ServiceConfig handed to configure() has the
\* metrics_server "influxdb:<value>" when the metrics_server setting is the
\* non-empty <value>, and no metrics_server when the setting is empty.
C16_MetricsServerEndpoint ==
    (Reconciled /\ Configured)
    => LET endpoint == snap.cfg[1].backend.metrics_server
       IN  /\ config.metrics_server # "" =>
                  /\ Len(endpoint) = 1
                  /\ endpoint[1][1] = "influxdb:"
                  /\ endpoint[1][2] = config.metrics_server
                  /\ Len(endpoint[1]) = 2
           /\ config.metrics_server = "" => Len(endpoint) = 0

C16_Witness ==
    /\ event = "config_changed"
    /\ Configured
    /\ config.metrics_server = "10.0.0.9:8086"
    /\ snap.cfg[1].backend.metrics_server =
           Some(<<"influxdb:", "10.0.0.9:8086">>)
    /\ prev_status = "Active"

\* C17: a config-changed event whose handler returns without raising leaves
\* the status Blocked or Active, never Waiting; Waiting is left behind only
\* by a handler that raised; and no step other than the handling of an event
\* changes the status.
C17_CompletedEventLeavesBlockedOrActive ==
    [][ /\ (event' = "config_changed" /\ ~raised')
            => status' \in {"Blocked", "Active"}
        /\ (Reconciled' /\ status' = "Waiting") => raised'
        /\ status' # status => Reconciled'
        /\ ~Reconciled' => status' = status ]_vars

C17_Witness ==
    /\ event = "config_changed"
    /\ ~raised
    /\ status = "Blocked"
    /\ prev_status = "Waiting"
    /\ MalformedPort

----------------------------------------------------------------------------
(* Relation-joined events, continued *)

\* C18: a relation-joined event passes the public address of the unit as the
\* hostname of the issuance, so the CA certificate and the leaf certificate
\* it issues have the public address as their subject, and the DNS names of
\* the leaf are the public and the private address and nothing else.
C18_HostnameIsPublicAddress ==
    event = "lxd_integrator_joined"
    => /\ arg # None
       /\ arg[1] = Identity(public_ip, public_ip, private_ip)
       /\ ~raised =>
              /\ LastIssued.identity = arg[1]
              /\ LastIssued.made.ca_cert.subject = public_ip
              /\ LastIssued.made.ca_cert.issuer = public_ip
              /\ LastIssued.made.cert.subject = public_ip
              /\ LastIssued.made.cert.issuer = public_ip
              /\ LastIssued.made.cert.sans_dns =
                     <<public_ip, private_ip, public_ip>>
              /\ Range(LastIssued.made.cert.sans_dns) = {public_ip, private_ip}
              /\ snap.lxd[1].cert = LastIssued.made.cert

C18_Witness ==
    /\ Joined
    /\ public_ip = "1.2.3.4"
    /\ private_ip = "10.0.0.1"
    /\ arg = Some(Identity("1.2.3.4", "1.2.3.4", "10.0.0.1"))
    /\ LastIssued.made.cert.subject = "1.2.3.4"
    /\ Range(LastIssued.made.cert.sans_dns) = {"1.2.3.4", "10.0.0.1"}

\* The private keys among the arguments of setup_lxd.
KeysGivenToSetup ==
    IF snap.lxd = None THEN {}
    ELSE {snap.lxd[1][f] : f \in {g \in DOMAIN snap.lxd[1] :
                                      IsPrivateKey(snap.lxd[1][g])}}

\* The private keys among the strings of the relation data.
KeysGivenToRelation ==
    IF relation_data = None THEN {}
    ELSE {Published[i].str : i \in {j \in 1..Len(Published) :
                                        IsPrivateKey(Published[j].str)}}

CaKeys == {issued[i].made.ca_key : i \in 1..Len(issued)}

\* C19: after a relation-joined event that returned, the managed service
\* has been given the leaf key of this event as the key of setup_lxd and no
\* other private key, the relation data holds no private key, and the key of
\* no CA has been given to either of them.
C19_KeysHandedOffOnlyToSetup ==
    /\ Joined =>
           /\ calls = <<"setup_lxd">>
           /\ DOMAIN snap.lxd[1] = {"cert", "key"}
           /\ snap.lxd[1].key = LastIssued.made.key
           /\ KeysGivenToSetup = {LastIssued.made.key}
           /\ LastIssued.made.ca_key \notin KeysGivenToSetup
           /\ LastIssued.made.ca_key.id # LastIssued.made.key.id
    /\ KeysGivenToRelation = {}
    /\ KeysGivenToSetup \cap CaKeys = {}
    /\ \A k \in KeysGivenToSetup, c \in CaKeys : k.id # c.id

C19_Witness ==
    /\ Joined
    /\ Len(issued) = 2
    /\ KeysGivenToSetup = {issued[2].made.key}
    /\ issued[2].made.key.id = 7
    /\ CaKeys = {issued[1].made.ca_key, issued[2].made.ca_key}
    /\ issued[2].made.ca_key.id = 5
    /\ relation_data # None

====
